---- MODULE Spec2Model ----
(***************************************************************************)
(* Model of plugins/PostProcessingPlugin/scripts/AnnealAfterPrint.py.      *)
(*                                                                         *)
(* Text is a sequence of one-character strings, so that substring search,  *)
(* slicing and concatenation are the operations Python performs on str.    *)
(* Numbers are formatted into their decimal characters.                    *)
(***************************************************************************)
EXTENDS Integers, Sequences, FiniteSets, TLC

\* ---------------------------------------------------------------- bounds
\* Largest temperature (bed, chamber, end cooling) a setting takes.
MaxTemp == 3
\* Largest annealMinutes a setting takes.
MaxMinutes == 3
\* Largest number of buffers in the buffer list.
MaxBuffers == 2
\* Largest number of pieces the last buffer is made of.
MaxPieces == 3
\* Largest number of execute calls in one behaviour.
MaxCalls == 2

\* ------------------------------------------------- string literals of the source
\* line 82: ';Generated Annealing GCODE by Anson Liu'
Header ==
  << ";", "G", "e", "n", "e", "r", "a", "t", "e", "d", " ", "A", "n", "n", "e", "a", "l", "i",
     "n", "g", " ", "G", "C", "O", "D", "E", " ", "b", "y", " ", "A", "n", "s", "o", "n", " ",
     "L", "i", "u" >>

\* line 85: '\nM300 ;play beep for plastic container placement reminder'
BeepLine ==
  << "\n", "M", "3", "0", "0", " ", ";", "p", "l", "a", "y", " ", "b", "e", "e", "p", " ", "f",
     "o", "r", " ", "p", "l", "a", "s", "t", "i", "c", " ", "c", "o", "n", "t", "a", "i", "n",
     "e", "r", " ", "p", "l", "a", "c", "e", "m", "e", "n", "t", " ", "r", "e", "m", "i", "n",
     "d", "e", "r" >>

\* line 87: '\nM117 '
StatusPrefix ==
  << "\n", "M", "1", "1", "7", " " >>

\* line 89: 'Place plastic container over objects on bed now! '
PlaceContainer ==
  << "P", "l", "a", "c", "e", " ", "p", "l", "a", "s", "t", "i", "c", " ", "c", "o", "n", "t",
     "a", "i", "n", "e", "r", " ", "o", "v", "e", "r", " ", "o", "b", "j", "e", "c", "t", "s",
     " ", "o", "n", " ", "b", "e", "d", " ", "n", "o", "w", "!", " " >>

\* line 90: 'Waiting until annealing temp reached...'
WaitingMsg ==
  << "W", "a", "i", "t", "i", "n", "g", " ", "u", "n", "t", "i", "l", " ", "a", "n", "n", "e",
     "a", "l", "i", "n", "g", " ", "t", "e", "m", "p", " ", "r", "e", "a", "c", "h", "e", "d",
     ".", ".", "." >>

\* line 91: '\nM73 P00 ;reset progress bar to 0'
ProgressResetNote ==
  << "\n", "M", "7", "3", " ", "P", "0", "0", " ", ";", "r", "e", "s", "e", "t", " ", "p", "r",
     "o", "g", "r", "e", "s", "s", " ", "b", "a", "r", " ", "t", "o", " ", "0" >>

\* line 94: '\nM190 R'
BedWaitR ==
  << "\n", "M", "1", "9", "0", " ", "R" >>

\* line 94: ' ;wait for buildplate to reach temp in C even if cooling'
BedWaitNote ==
  << " ", ";", "w", "a", "i", "t", " ", "f", "o", "r", " ", "b", "u", "i", "l", "d", "p", "l",
     "a", "t", "e", " ", "t", "o", " ", "r", "e", "a", "c", "h", " ", "t", "e", "m", "p", " ",
     "i", "n", " ", "C", " ", "e", "v", "e", "n", " ", "i", "f", " ", "c", "o", "o", "l", "i",
     "n", "g" >>

\* line 96: '\nM191 R'
ChamberWaitR ==
  << "\n", "M", "1", "9", "1", " ", "R" >>

\* line 96: ' ;wait for chamber to reach temp in C even if cooling'
ChamberWaitNote ==
  << " ", ";", "w", "a", "i", "t", " ", "f", "o", "r", " ", "c", "h", "a", "m", "b", "e", "r",
     " ", "t", "o", " ", "r", "e", "a", "c", "h", " ", "t", "e", "m", "p", " ", "i", "n", " ",
     "C", " ", "e", "v", "e", "n", " ", "i", "f", " ", "c", "o", "o", "l", "i", "n", "g" >>

\* line 100: 'Keep plastic container over objects. '
KeepContainer ==
  << "K", "e", "e", "p", " ", "p", "l", "a", "s", "t", "i", "c", " ", "c", "o", "n", "t", "a",
     "i", "n", "e", "r", " ", "o", "v", "e", "r", " ", "o", "b", "j", "e", "c", "t", "s", ".",
     " " >>

\* line 101: 'Annealing...'
AnnealingMsg ==
  << "A", "n", "n", "e", "a", "l", "i", "n", "g", ".", ".", "." >>

\* line 102: '\nM73 P00'
ProgressReset ==
  << "\n", "M", "7", "3", " ", "P", "0", "0" >>

\* line 105: 'M73 P0 R'
ProgressZero ==
  << "M", "7", "3", " ", "P", "0", " ", "R" >>

\* line 108: '\nG4 S'
DwellS ==
  << "\n", "G", "4", " ", "S" >>

\* line 111: '\nM73 P'
ProgressP ==
  << "\n", "M", "7", "3", " ", "P" >>

\* line 111: ' R'
ProgressR ==
  << " ", "R" >>

\* line 117: '\nM117 Annealing complete. Gradually lowering bed temperature...'
CooldownMsg ==
  << "\n", "M", "1", "1", "7", " ", "A", "n", "n", "e", "a", "l", "i", "n", "g", " ", "c", "o",
     "m", "p", "l", "e", "t", "e", ".", " ", "G", "r", "a", "d", "u", "a", "l", "l", "y", " ",
     "l", "o", "w", "e", "r", "i", "n", "g", " ", "b", "e", "d", " ", "t", "e", "m", "p", "e",
     "r", "a", "t", "u", "r", "e", ".", ".", "." >>

\* line 121: '\nM190 S'
BedWaitS ==
  << "\n", "M", "1", "9", "0", " ", "S" >>

\* line 123: '\nM191 S'
ChamberWaitS ==
  << "\n", "M", "1", "9", "1", " ", "S" >>

\* line 124: '\nG4 S60'
CooldownDwell ==
  << "\n", "G", "4", " ", "S", "6", "0" >>

\* line 127: '\nM140 S0'
BedOff ==
  << "\n", "M", "1", "4", "0", " ", "S", "0" >>

\* line 129: '\nM141 S0'
ChamberOff ==
  << "\n", "M", "1", "4", "1", " ", "S", "0" >>

\* line 130: '\nM117 Annealing complete.'
CompleteMsg ==
  << "\n", "M", "1", "1", "7", " ", "A", "n", "n", "e", "a", "l", "i", "n", "g", " ", "c", "o",
     "m", "p", "l", "e", "t", "e", "." >>

\* line 154: ';End sof Gcode'
EndMarker ==
  << ";", "E", "n", "d", " ", "s", "o", "f", " ", "G", "c", "o", "d", "e" >>

\* ---------------------------------------------------------------- Python helpers
\* A number a setting holds: a Python int, or a Python float, which the three
\* temperature settings are declared to be.  tenths is ten times its value.
PyInt(n) == [ float |-> FALSE, tenths |-> 10 * n ]
PyFloat(tenths) == [ float |-> TRUE, tenths |-> tenths ]

\* The truth value of a number (`if annealBedTemp:`): it is not zero.
IsTrue(v) == v.tenths # 0

\* v > x for a number v and an int x (lines 120, 122).
GreaterThan(v, x) == v.tenths > 10 * x

\* max(a, b) of line 119: the first of the largest arguments.
Max(a, b) == IF b.tenths > a.tenths THEN b ELSE a

Digits == << "0", "1", "2", "3", "4", "5", "6", "7", "8", "9" >>

RECURSIVE FormatNat(_)
\* '{}'.format(n) for an int n >= 0: its decimal digits.
FormatNat(n) == IF n < 10 THEN << Digits[n + 1] >>
                ELSE FormatNat(n \div 10) \o << Digits[(n % 10) + 1] >>

\* '{}'.format(n) for an int n.
FormatInt(n) == IF n < 0 THEN << "-" >> \o FormatNat(-n) ELSE FormatNat(n)

\* '{}'.format(v) for a number v >= 0: an int prints its digits, a float
\* its shortest decimal, always with a fractional part ('60.0', '1.5').
FormatNumber(v) ==
  IF v.float
  THEN FormatNat(v.tenths \div 10) \o << "." >> \o << Digits[(v.tenths % 10) + 1] >>
  ELSE FormatInt(v.tenths \div 10)

\* ---- IEEE 754 double arithmetic on whole numbers of up to 90 bits, held as
\* six limbs of 15 bits, the lowest first.
LimbBits == 15
LimbBase == 32768
MantissaBits == 53

Pow2(k) == 2 ^ k

Limb(a, i) == IF i \in 1..Len(a) THEN a[i] ELSE 0

\* Long division of x * 2^75 by d, for 0 <= x <= d <= 65536: the six limbs
\* of the quotient and the remainder.
DivideLimbs(x, d) ==
  LET t1 == (x % d) * LimbBase
      t2 == (t1 % d) * LimbBase
      t3 == (t2 % d) * LimbBase
      t4 == (t3 % d) * LimbBase
      t5 == (t4 % d) * LimbBase
  IN  [ limbs |-> << t5 \div d, t4 \div d, t3 \div d, t2 \div d, t1 \div d, x \div d >>,
        rem   |-> t5 % d ]

LimbBitLength(l) ==
  IF l = 0 THEN 0 ELSE CHOOSE k \in 1..LimbBits : Pow2(k - 1) <= l /\ l < Pow2(k)

\* The number of bits of a, which is not zero.
BitLength(a) ==
  LET top == CHOOSE i \in 1..Len(a) : a[i] # 0 /\ \A j \in (i + 1)..Len(a) : a[j] = 0
  IN  LimbBits * (top - 1) + LimbBitLength(a[top])

\* a with its s lowest bits dropped.
ShiftRight(a, s) ==
  LET w == s \div LimbBits
      b == s % LimbBits
  IN  [ i \in 1..Len(a) |->
          (Limb(a, i + w) \div Pow2(b))
            + (Limb(a, i + w + 1) % Pow2(b)) * Pow2(LimbBits - b) ]

Bit(a, k) == (Limb(a, (k \div LimbBits) + 1) \div Pow2(k % LimbBits)) % 2

\* The s lowest bits of a are zero.
LowBitsZero(a, s) ==
  /\ \A i \in 1..(s \div LimbBits) : Limb(a, i) = 0
  /\ Limb(a, (s \div LimbBits) + 1) % Pow2(s % LimbBits) = 0

\* a plus one: a limb takes the carry when every lower limb is full.
AddOne(a) ==
  [ i \in 1..Len(a) |->
      IF \A j \in 1..(i - 1) : a[j] = LimbBase - 1
      THEN (a[i] + 1) % LimbBase ELSE a[i] ]

\* a times the small number c, for a of six limbs.
Times(a, c) ==
  LET p1 == a[1] * c
      p2 == a[2] * c + (p1 \div LimbBase)
      p3 == a[3] * c + (p2 \div LimbBase)
      p4 == a[4] * c + (p3 \div LimbBase)
      p5 == a[5] * c + (p4 \div LimbBase)
      p6 == a[6] * c + (p5 \div LimbBase)
  IN  << p1 % LimbBase, p2 % LimbBase, p3 % LimbBase, p4 % LimbBase,
         p5 % LimbBase, p6 % LimbBase >>

\* a / 2^s rounded to the nearest whole number, ties to even; sticky tells
\* that a stands for a number slightly above a.
RoundShift(a, s, sticky) ==
  LET t  == ShiftRight(a, s)
      up == /\ s > 0
            /\ Bit(a, s - 1) = 1
            /\ sticky \/ ~LowBitsZero(a, s - 1) \/ t[1] % 2 = 1
  IN  IF up THEN AddOne(t) ELSE t

\* round(x/minutes * 100, 2) of line 109 in hundredths (an integer), for
\* 1 <= x <= minutes <= 65536, computed as Python computes it on doubles:
\* x/minutes rounded to 53 bits, the product by 100 rounded to 53 bits, and
\* round(_, 2), which rounds the exact value of that double to the nearest
\* hundredth, ties to even.  (23/160*100 is the double 14.374999999999998,
\* so it rounds to 14.37 although 2300/160 = 14.375.)
RoundedProgress(x, minutes) ==
  LET quot == DivideLimbs(x, minutes)
      s1   == BitLength(quot.limbs) - MantissaBits
      m1   == RoundShift(quot.limbs, s1, quot.rem # 0)
      prod == Times(m1, 100)
      s2   == BitLength(prod) - MantissaBits
      m2   == RoundShift(prod, s2, FALSE)
      hund == Times(m2, 100)
      h    == RoundShift(hund, 5 * LimbBits - s1 - s2, FALSE)
  IN  h[1] + LimbBase * h[2]

\* '{}'.format(f) for the float f = h/100 with h >= 0: Python prints the
\* shortest decimal that reads back as f, always with a fractional part
\* ('50.0', '33.33', '12.5', '100.0').
FormatHundredths(h) ==
  LET whole == h \div 100
      frac  == h % 100
  IN  FormatNat(whole) \o << "." >> \o
        (IF frac % 10 = 0 THEN << Digits[(frac \div 10) + 1] >>
         ELSE << Digits[(frac \div 10) + 1], Digits[(frac % 10) + 1] >>)

\* The positions (1-based) at which sub occurs in s.
Occurrences(s, sub) ==
  { i \in 1..(Len(s) - Len(sub) + 1) :
      /\ s[i] = sub[1]
      /\ SubSeq(s, i, i + Len(sub) - 1) = sub }

\* str.index(sub) of line 154, 0-based as in Python; -1 stands for the
\* ValueError that str.index raises when sub does not occur.
IndexLast(s, sub) ==
  LET occ == Occurrences(s, sub)
  IN  IF occ = {} THEN -1
      ELSE (CHOOSE i \in occ : \A j \in occ : j <= i) - 1

Index(s, sub) ==
  LET occ == Occurrences(s, sub)
  IN  IF occ = {} THEN -1
      ELSE (CHOOSE i \in occ : \A j \in occ : i <= j) - 1

\* ---------------------------------------------------------------- generateAnnealCode
DwellWaitSeconds == 60

RECURSIVE DwellLoopShort(_, _, _)
\* The loop with range(1, minutes) for range(1, minutes+1).
DwellLoopShort(x, minutes, dp_code) ==
  IF x >= minutes THEN dp_code
  ELSE DwellLoopShort(x + 1, minutes,
         dp_code \o DwellS \o FormatInt(DwellWaitSeconds)
                 \o ProgressP \o FormatHundredths(RoundedProgress(x, minutes))
                 \o ProgressR \o FormatInt(minutes - x))

RECURSIVE DwellLoop(_, _, _)
\* The loop of lines 106-111, from iteration x on, appending to dp_code.
DwellLoop(x, minutes, dp_code) ==
  IF x > minutes THEN dp_code
  ELSE DwellLoop(x + 1, minutes,
         dp_code \o DwellS \o FormatInt(DwellWaitSeconds)
                 \o ProgressP \o FormatHundredths(RoundedProgress(x, minutes))
                 \o ProgressR \o FormatInt(minutes - x))

\* generateDwellAndProgressCode(minutes), lines 104-113.
generateDwellAndProgressCode(minutes) ==
  DwellLoop(1, minutes, ProgressZero \o FormatInt(minutes))

RECURSIVE StepDownLoopExclusive(_, _, _, _, _)
\* The loop stopping one step above endCoolingTemp.
StepDownLoopExclusive(x, endCoolingTemp, annealBedTemp, annealChamberTemp, anneal_code) ==
  IF x <= endCoolingTemp THEN anneal_code
  ELSE StepDownLoopExclusive(x - 1, endCoolingTemp, annealBedTemp, annealChamberTemp,
         anneal_code
           \o (IF IsTrue(annealBedTemp) /\ GreaterThan(annealBedTemp, x)
               THEN BedWaitS \o FormatInt(x) ELSE << >>)
           \o (IF IsTrue(annealChamberTemp) /\ GreaterThan(annealChamberTemp, x)
               THEN ChamberWaitS \o FormatInt(x) ELSE << >>)
           \o CooldownDwell)

RECURSIVE StepDownLoopInverted(_, _, _, _, _)
\* The loop waiting for the channels whose target is at most the step.
StepDownLoopInverted(x, endCoolingTemp, annealBedTemp, annealChamberTemp, anneal_code) ==
  IF x < endCoolingTemp THEN anneal_code
  ELSE StepDownLoopInverted(x - 1, endCoolingTemp, annealBedTemp, annealChamberTemp,
         anneal_code
           \o (IF IsTrue(annealBedTemp) /\ ~GreaterThan(annealBedTemp, x)
               THEN BedWaitS \o FormatInt(x) ELSE << >>)
           \o (IF IsTrue(annealChamberTemp) /\ ~GreaterThan(annealChamberTemp, x)
               THEN ChamberWaitS \o FormatInt(x) ELSE << >>)
           \o CooldownDwell)

RECURSIVE StepDownLoop(_, _, _, _, _)
\* The loop of lines 119-124: x runs over reversed(range(endCoolingTemp, max)),
\* here from the int x down to the int endCoolingTemp, appending to
\* anneal_code; the two temperatures are numbers.
StepDownLoop(x, endCoolingTemp, annealBedTemp, annealChamberTemp, anneal_code) ==
  IF x < endCoolingTemp THEN anneal_code
  ELSE StepDownLoop(x - 1, endCoolingTemp, annealBedTemp, annealChamberTemp,
         anneal_code
           \o (IF IsTrue(annealBedTemp) /\ GreaterThan(annealBedTemp, x)
               THEN BedWaitS \o FormatInt(x) ELSE << >>)
           \o (IF IsTrue(annealChamberTemp) /\ GreaterThan(annealChamberTemp, x)
               THEN ChamberWaitS \o FormatInt(x) ELSE << >>)
           \o CooldownDwell)

\* Lines 126-129: the heater of every channel with a target is turned off.
HeaterOffSwapped(annealBedTemp, annealChamberTemp) ==
  (IF IsTrue(annealBedTemp) THEN ChamberOff ELSE << >>)
    \o (IF IsTrue(annealChamberTemp) THEN BedOff ELSE << >>)

HeaterOff(annealBedTemp, annealChamberTemp) ==
  (IF IsTrue(annealBedTemp) THEN BedOff ELSE << >>)
    \o (IF IsTrue(annealChamberTemp) THEN ChamberOff ELSE << >>)

\* range(start, stop) of line 119 raises TypeError when an argument is a float.
RangeRaises(start, stop) == start.float \/ stop.float

\* generateAnnealCode, lines 81-132: the code it returns, or the TypeError
\* range() raises at line 119.  The temperatures are numbers, annealMinutes
\* an int, initialBeep the truth value of the argument.
generateAnnealCode(annealBedTemp, annealChamberTemp, annealMinutes, initialBeep, endCoolingTemp) ==
  LET c1 == Header \o (IF initialBeep THEN BeepLine ELSE << >>)
      c2 == c1 \o StatusPrefix
               \o (IF IsTrue(annealBedTemp) THEN PlaceContainer ELSE << >>)
               \o WaitingMsg \o ProgressResetNote
      c3 == c2 \o (IF IsTrue(annealBedTemp)
                   THEN BedWaitR \o FormatNumber(annealBedTemp) \o BedWaitNote
                   ELSE << >>)
               \o (IF IsTrue(annealChamberTemp)
                   THEN ChamberWaitR \o FormatNumber(annealChamberTemp) \o ChamberWaitNote
                   ELSE << >>)
      c4 == c3 \o StatusPrefix
               \o (IF IsTrue(annealBedTemp) THEN KeepContainer ELSE << >>)
               \o AnnealingMsg \o ProgressReset
      c5 == c4 \o << "\n" >> \o generateDwellAndProgressCode(annealMinutes)
      c6 == c5 \o CooldownMsg
      stop == Max(annealBedTemp, annealChamberTemp)
      c7 == StepDownLoop((stop.tenths \div 10) - 1, endCoolingTemp.tenths \div 10,
                         annealBedTemp, annealChamberTemp, c6)
      c8 == c7 \o HeaterOff(annealBedTemp, annealChamberTemp)
  IN  IF RangeRaises(endCoolingTemp, stop)
      THEN [ raised |-> "TypeError", code |-> << >> ]
      ELSE [ raised |-> "none", code |-> c8 \o CompleteMsg ]

\* ---------------------------------------------------------------- settings
\* The options of the heatingElement enum, lines 25-30.
HeatingElements == { "bed", "chamber", "all" }

\* The six settings getSettingDataString declares, lines 20-77.
DeclaredKeys ==
  { "heatingElement", "annealBedTemp", "annealChamberTemp", "annealMinutes",
    "reminderBeep", "endCoolingTemp" }

\* The floats a temperature setting takes: 0.0 and 1.5.
FloatTemperatures == { PyFloat(0), PyFloat(15) }

\* The values of a setting of "type": "float" (lines 38, 48, 74): the
\* provider answers with the number the user entered, an int (the declared
\* defaults 0 and 50 are ints) or a float.
Temperatures == { PyInt(n) : n \in 0..MaxTemp } \cup FloatTemperatures

\* The answers of the configuration provider: one value for each declared key
\* and one for "firmware_config", the key line 146 asks for, which the script
\* does not declare: the provider's answer to it is any value, of which
\* generateAnnealCode uses the truth value only.
AllSettings ==
  [ heatingElement    : HeatingElements,
    annealBedTemp     : Temperatures,
    annealChamberTemp : Temperatures,
    annealMinutes     : 0..MaxMinutes,
    reminderBeep      : BOOLEAN,
    endCoolingTemp    : Temperatures,
    firmware_config   : BOOLEAN ]

\* ---------------------------------------------------------------- buffers
Newline == << "\n" >>

\* A line of print G-code.
GcodeLine == << "G", "1", "\n" >>

\* The beginning of the marker, which is not the marker.
MarkerPrefix == << ";", "E", "n", "d" >>

Pieces == { GcodeLine, EndMarker, MarkerPrefix }

RECURSIVE Texts(_)
\* The texts made of at most n pieces.
Texts(n) ==
  IF n = 0 THEN { << >> }
  ELSE Texts(n - 1) \cup { t \o p : t \in Texts(n - 1), p \in Pieces }

\* The buffers before the last one: with and without the marker.
OtherBuffers == { GcodeLine, EndMarker \o Newline }

\* The buffer lists of at most MaxBuffers buffers (the empty list included).
BufferLists ==
  { << >> } \cup
  UNION { { front \o << last >> :
              front \in [1..(n - 1) -> OtherBuffers], last \in Texts(MaxPieces) } :
          n \in 1..MaxBuffers }

VARIABLES
  settings,  \* the configuration provider's answers, by key
  data,      \* the buffer list execute works on (mutated in place)
  calls,     \* number of execute calls made
  result,    \* how the last call ended: "none", "returned", "TypeError", "IndexError"
  queried,   \* the keys the last call asked the provider for, in order
  block,     \* the anneal_code of the last call (empty when none was made)
  prev,      \* data before the last call
  data0,     \* data before the first call
  blocks     \* the anneal_code of every call that returned, in order

vars == << settings, data, calls, result, queried, block, prev, data0, blocks >>

\* ---------------------------------------------------------------- execute
\* self.getSettingValueByKey(key)
getSettingValueByKey(key) == settings[key]

\* Lines 138-141: anneal_bed_temp for a heating element selection.
anneal_bed_temp(heating_element) ==
  IF heating_element = "bed" \/ heating_element = "all"
  THEN getSettingValueByKey("annealBedTemp") ELSE PyInt(0)

\* Lines 139-143: anneal_chamber_temp for a heating element selection.
anneal_chamber_temp_unselected(heating_element) ==
  getSettingValueByKey("annealChamberTemp")

anneal_chamber_temp(heating_element) ==
  IF heating_element = "chamber" \/ heating_element = "all"
  THEN getSettingValueByKey("annealChamberTemp") ELSE PyInt(0)

\* The keys lines 135-147 ask the provider for, in the order of the calls.
QueriedKeys(heating_element) ==
  << "heatingElement" >>
    \o (IF heating_element = "bed" \/ heating_element = "all"
        THEN << "annealBedTemp" >> ELSE << >>)
    \o (IF heating_element = "chamber" \/ heating_element = "all"
        THEN << "annealChamberTemp" >> ELSE << >>)
    \o << "annealMinutes", "firmware_config", "endCoolingTemp" >>

\* Lines 153-158 on the last buffer: the anneal code and a newline go before
\* the first marker, or at the end when str.index raises ValueError.
Spliced(last, anneal_code) ==
  LET end_of_gcode_index == Index(last, EndMarker)
  IN  IF end_of_gcode_index = -1
      THEN last \o anneal_code \o Newline
      ELSE SubSeq(last, 1, end_of_gcode_index) \o anneal_code \o Newline
             \o SubSeq(last, end_of_gcode_index + 1, Len(last))

\* Lines 153-160 on a non-empty list: data[-1] is replaced, in place.
SplicedFirst(list, anneal_code) ==
  [ list EXCEPT ![1] = Spliced(list[1], anneal_code) ]

SplicedList(list, anneal_code) ==
  [ list EXCEPT ![Len(list)] = Spliced(list[Len(list)], anneal_code) ]

\* execute(data), lines 134-160.  When generateAnnealCode raises TypeError
\* at line 151 the call ends with it, the list untouched.  On an empty list
\* data[-1] of line 154 raises IndexError, which `except ValueError` does not
\* catch: the call ends with the exception, after the settings were read and
\* the code generated.
Execute ==
  /\ calls < MaxCalls
  /\ LET heating_element == getSettingValueByKey("heatingElement")
         anneal_minutes == getSettingValueByKey("annealMinutes")
         initial_beep == getSettingValueByKey("firmware_config")
         final_cooling_temp == getSettingValueByKey("endCoolingTemp")
     IN  \E anneal_code \in { generateAnnealCode(anneal_bed_temp(heating_element),
                                           anneal_chamber_temp(heating_element),
                                           anneal_minutes, initial_beep,
                                           final_cooling_temp) } :
         /\ queried' = QueriedKeys(heating_element)
         /\ block' = anneal_code.code
         /\ IF anneal_code.raised # "none"
            THEN /\ result' = anneal_code.raised
                 /\ data' = data
                 /\ blocks' = blocks
            ELSE IF Len(data) = 0
            THEN /\ result' = "IndexError"
                 /\ data' = data
                 /\ blocks' = blocks
            ELSE /\ result' = "returned"
                 /\ data' = SplicedList(data, anneal_code.code)
                 /\ blocks' = Append(blocks, anneal_code.code)
  /\ prev' = data
  /\ calls' = calls + 1
  /\ UNCHANGED << settings, data0 >>

\* The user selects another option of the heatingElement enum (lines 20-32)
\* between two calls.
SelectHeatingElement ==
  /\ calls < MaxCalls
  /\ \E h \in HeatingElements \ { settings.heatingElement } :
       settings' = [ settings EXCEPT !.heatingElement = h ]
  /\ UNCHANGED << data, calls, result, queried, block, prev, data0, blocks >>

\* ---------------------------------------------------------------- specifications
InitRest ==
  /\ calls = 0
  /\ result = "none"
  /\ queried = << >>
  /\ block = << >>
  /\ prev = data
  /\ data0 = data
  /\ blocks = << >>

\* Settings of the buffer-list specification: both channels have a target,
\* the heating element selection decides which are used; the end cooling
\* temperature is an int or a float.
SpliceSettings ==
  [ heatingElement    : HeatingElements,
    annealBedTemp     : { PyInt(MaxTemp) },
    annealChamberTemp : { PyInt(MaxTemp - 1) },
    annealMinutes     : { 1 },
    reminderBeep      : { FALSE },
    endCoolingTemp    : { PyInt(MaxTemp - 1), PyFloat(15) },
    firmware_config   : { FALSE } ]

\* Any buffer list, spliced by successive calls.
Init ==
  /\ settings \in SpliceSettings
  /\ data \in BufferLists
  /\ InitRest

Next == Execute \/ SelectHeatingElement

Spec == Init /\ [][Next]_vars

\* The buffer list of the settings specification: one buffer with the marker.
GenData == << GcodeLine \o EndMarker \o Newline >>

\* Any settings, one buffer list.
GenInit ==
  /\ settings \in AllSettings
  /\ data = GenData
  /\ InitRest

GenNext == Execute

GenSpec == GenInit /\ [][GenNext]_vars

\* ---------------------------------------------------------------- reading a text
\* The end of the line that starts at position from: the position of the
\* next newline, or one past the end of the text.
LineEnd(text, from) ==
  CHOOSE e \in from..(Len(text) + 1) :
    /\ e = Len(text) + 1 \/ text[e] = "\n"
    /\ \A i \in from..(e - 1) : text[i] # "\n"

RECURSIVE LinesFrom(_, _)
\* The lines of the text from position from on.
LinesFrom(text, from) ==
  CHOOSE ls \in { << SubSeq(text, from, e - 1) >>
                    \o (IF e > Len(text) THEN << >> ELSE LinesFrom(text, e + 1)) :
                  e \in { LineEnd(text, from) } } : TRUE

\* text.split('\n'): the lines of a text.
Lines(text) == LinesFrom(text, 1)

HasPrefix(line, prefix) ==
  /\ Len(line) >= Len(prefix)
  /\ SubSeq(line, 1, Len(prefix)) = prefix

Contains(text, sub) == Occurrences(text, sub) # {}

\* The commands of the generated text, as the firmware reads them.
CmdBeep        == << "M", "3", "0", "0" >>
CmdBedWait     == << "M", "1", "9", "0" >>
CmdChamberWait == << "M", "1", "9", "1" >>
CmdBedSet      == << "M", "1", "4", "0" >>
CmdChamberSet  == << "M", "1", "4", "1" >>
CmdDwell       == << "G", "4", " ", "S" >>
CmdProgress    == << "M", "7", "3", " ", "P" >>
LineDwell60    == << "G", "4", " ", "S", "6", "0" >>
LineBedOff     == << "M", "1", "4", "0", " ", "S", "0" >>
LineChamberOff == << "M", "1", "4", "1", " ", "S", "0" >>
LineAnnealing  == << "M", "7", "3", " ", "P", "0", "0" >>
LineCooldown   == Tail(CooldownMsg)
LineComplete   ==
  << "M", "1", "1", "7", " ", "A", "n", "n", "e", "a", "l", "i", "n", "g", " ",
     "c", "o", "m", "p", "l", "e", "t", "e", "." >>

DigitValue(c) == CHOOSE d \in 0..9 : Digits[d + 1] = c

RECURSIVE ParseNat(_)
\* The number a sequence of digits writes.
ParseNat(ds) ==
  IF Len(ds) = 0 THEN 0
  ELSE 10 * ParseNat(SubSeq(ds, 1, Len(ds) - 1)) + DigitValue(ds[Len(ds)])

\* The percent a progress line 'M73 P<percent> R<minutes>' reports, in
\* hundredths of a percent.
PercentOf(line) ==
  LET sp   == CHOOSE i \in 6..Len(line) : line[i] = " " /\ \A j \in 6..(i - 1) : line[j] # " "
      txt  == SubSeq(line, 6, sp - 1)
      dots == { i \in 1..Len(txt) : txt[i] = "." }
  IN  IF dots = {} THEN 100 * ParseNat(txt)
      ELSE LET dot  == CHOOSE i \in dots : TRUE
               frac == SubSeq(txt, dot + 1, Len(txt))
           IN  100 * ParseNat(SubSeq(txt, 1, dot - 1))
                 + (IF Len(frac) = 1 THEN 10 * ParseNat(frac) ELSE ParseNat(frac))

\* The remaining minutes a progress line reports.
RemainingOf(line) ==
  LET sp == CHOOSE i \in 6..Len(line) : line[i] = " " /\ \A j \in 6..(i - 1) : line[j] # " "
  IN  ParseNat(SubSeq(line, sp + 2, Len(line)))

\* The position of the first line equal to l among lines.
LineIndex(lines, l) ==
  CHOOSE i \in 1..Len(lines) : lines[i] = l /\ \A j \in 1..(i - 1) : lines[j] # l

\* The lines of the dwell sub-block of a block: after the 'M73 P00' line,
\* before the cooldown message.
DwellLines(text) ==
  CHOOSE sub \in { SubSeq(ls, LineIndex(ls, LineAnnealing) + 1,
                             LineIndex(ls, LineCooldown) - 1) :
                    ls \in { Lines(text) } } : TRUE

IsStepWait(line) ==
  \/ HasPrefix(line, CmdBedWait \o << " ", "S" >>)
  \/ HasPrefix(line, CmdChamberWait \o << " ", "S" >>)

\* The lines of the step-down loop among the lines ls of a block: the wait
\* and dwell lines that follow the cooldown message.
LoopLines(ls) ==
  LET first == LineIndex(ls, LineCooldown) + 1
      stop  == CHOOSE i \in first..(Len(ls) + 1) :
                 /\ i = Len(ls) + 1 \/ ~(IsStepWait(ls[i]) \/ ls[i] = LineDwell60)
                 /\ \A j \in first..(i - 1) : IsStepWait(ls[j]) \/ ls[j] = LineDwell60
  IN  SubSeq(ls, first, stop - 1)

\* The lines of the step-down loop of a block.
StepDownLines(text) == CHOOSE sub \in { LoopLines(ls) : ls \in { Lines(text) } } : TRUE

\* The temperatures the last call passed to generateAnnealCode.
BedTarget == anneal_bed_temp(settings.heatingElement)
ChamberTarget == anneal_chamber_temp(settings.heatingElement)

Called == calls > 0 /\ result = "returned"

\* ---------------------------------------------------------------- claims
\* The position of the first marker in a text that has one.
FirstMarker(text) ==
  CHOOSE p \in Occurrences(text, EndMarker) :
    \A q \in Occurrences(text, EndMarker) : p <= q

HasMarker(text) == Occurrences(text, EndMarker) # {}

\* C1: a call on a non-empty list rewrites the last buffer: with the marker
\* in it, into the text before the first marker, the block, a newline, then
\* the marker and all that followed it, so that the block ends before the
\* first marker of the result; without the marker, into the buffer, the
\* block and a newline.
C1_SpliceLastBuffer ==
  (Called /\ Len(prev) > 0) =>
    LET before == prev[Len(prev)]
        after  == data[Len(data)]
    IN  IF HasMarker(before)
        THEN LET p == FirstMarker(before)
             IN  /\ after = SubSeq(before, 1, p - 1) \o block \o Newline
                              \o SubSeq(before, p, Len(before))
                 /\ SubSeq(after, 1, p - 1) = SubSeq(before, 1, p - 1)
                 /\ FirstMarker(after) = p + Len(block) + 1
                 /\ SubSeq(after, FirstMarker(after), Len(after))
                      = SubSeq(before, p, Len(before))
        ELSE after = before \o block \o Newline

\* A call has inserted the block between a non-empty text and a marker that
\* other text follows.
C1_Witness ==
  /\ Called
  /\ Len(prev) > 0
  /\ HasMarker(prev[Len(prev)])
  /\ FirstMarker(prev[Len(prev)]) > 1
  /\ FirstMarker(prev[Len(prev)]) + Len(EndMarker) <= Len(prev[Len(prev)])
  /\ data[Len(data)] # prev[Len(prev)]

\* C2 (as claimed): no call ends with an error, whatever the buffer list.
C2_NeverFails == result \in { "none", "returned" }

\* C3: a call leaves the list as long as it was and every buffer but the
\* last as it was; a call that returns, returns that list.
C3_OtherBuffersUnchanged ==
  calls > 0 =>
    /\ Len(data) = Len(prev)
    /\ Len(data) = Len(data0)
    /\ \A i \in 1..(Len(data) - 1) : data[i] = prev[i] /\ data[i] = data0[i]
    /\ result = "returned" => data[Len(data)] # prev[Len(prev)]

\* A call has spliced the last of two buffers, the first one holding the marker.
C3_Witness ==
  /\ Called
  /\ Len(data) >= 2
  /\ HasMarker(data[1])
  /\ data[Len(data)] # prev[Len(prev)]

RECURSIVE Joined(_)
\* Every block of a sequence, each followed by a newline.
Joined(bs) ==
  IF Len(bs) = 0 THEN << >>
  ELSE Joined(SubSeq(bs, 1, Len(bs) - 1)) \o bs[Len(bs)] \o Newline

\* C10 (as claimed): after k >= 1 calls on a non-empty list whose last
\* buffer held the marker, the last buffer is the original text before its
\* first marker, k blocks in the order of the calls, each with its newline,
\* and the original text from the marker on: the blocks end before the first
\* marker, the markers are as many as before, and every call changed the
\* buffer.
C10_RepeatedCalls ==
  (calls >= 1 /\ Len(data0) > 0 /\ HasMarker(data0[Len(data0)])) =>
    LET orig == data0[Len(data0)]
        now  == data[Len(data)]
        p    == FirstMarker(orig)
    IN  /\ Len(blocks) = calls
        /\ now = SubSeq(orig, 1, p - 1) \o Joined(blocks) \o SubSeq(orig, p, Len(orig))
        /\ FirstMarker(now) = p + Len(Joined(blocks))
        /\ Cardinality(Occurrences(now, EndMarker))
             = Cardinality(Occurrences(orig, EndMarker))
        /\ now # prev[Len(prev)]
        /\ Len(now) > Len(prev[Len(prev)])

\* What holds of repeated calls: the last buffer is the original text before
\* its first marker, the blocks of the calls that returned, in their order,
\* and the original text from the marker on; a call that returned has
\* changed the buffer, a call that raised has not.
ReturnedCallsInOrder ==
  (calls >= 1 /\ Len(data0) > 0 /\ HasMarker(data0[Len(data0)])) =>
    LET orig == data0[Len(data0)]
        now  == data[Len(data)]
        p    == FirstMarker(orig)
    IN  /\ now = SubSeq(orig, 1, p - 1) \o Joined(blocks) \o SubSeq(orig, p, Len(orig))
        /\ FirstMarker(now) = p + Len(Joined(blocks))
        /\ Cardinality(Occurrences(now, EndMarker))
             = Cardinality(Occurrences(orig, EndMarker))
        /\ result = "returned" <=> now # prev[Len(prev)]

\* ---------------------------------------------------------------- claims on the block
\* C4 (as claimed): with heatingElement "bed" the block has no chamber wait
\* and no chamber-off command; with "all" it has the chamber wait, the
\* chamber-off, the bed wait and the bed-off command, whatever the other
\* settings are.
C4_AllHasBothChannels ==
  Called =>
    /\ settings.heatingElement = "bed" =>
         ~Contains(block, CmdChamberWait) /\ ~Contains(block, CmdChamberSet)
    /\ settings.heatingElement = "all" =>
         /\ Contains(block, CmdChamberWait) /\ Contains(block, CmdChamberSet)
         /\ Contains(block, CmdBedWait) /\ Contains(block, CmdBedSet)

\* C4 (amended): a channel the heating element selection leaves out has no
\* wait and no off command in the block; a selected channel has both exactly
\* when its temperature setting is not 0.
C4_ChannelCommands ==
  Called =>
    LET bedSelected     == settings.heatingElement \in { "bed", "all" }
        chamberSelected == settings.heatingElement \in { "chamber", "all" }
        bedOn     == bedSelected /\ IsTrue(settings.annealBedTemp)
        chamberOn == chamberSelected /\ IsTrue(settings.annealChamberTemp)
    IN  /\ Contains(block, CmdBedWait) <=> bedOn
        /\ Contains(block, CmdBedSet) <=> bedOn
        /\ Contains(block, CmdChamberWait) <=> chamberOn
        /\ Contains(block, CmdChamberSet) <=> chamberOn

\* A block for bed and chamber, both with a temperature, has the commands of both.
C4_Witness ==
  /\ Called
  /\ settings.heatingElement = "all"
  /\ IsTrue(settings.annealBedTemp)
  /\ IsTrue(settings.annealChamberTemp)
  /\ Contains(block, CmdChamberWait)
  /\ Contains(block, CmdChamberSet)

\* C5: for annealMinutes = N the dwell sub-block is the line 'M73 P0 R<N>'
\* followed by N pairs, the i-th being 'G4 S60' and a progress line that
\* reports N - i remaining minutes and the percent i/N*100 to the nearest
\* hundredth; the last pair reports 100 percent and 0 minutes, and for N = 0
\* the sub-block is the one line 'M73 P0 R0'.
C5_DwellSubBlock ==
  Called =>
    LET N == settings.annealMinutes
    IN  \A sub \in { DwellLines(block) } :
        /\ Len(sub) = 1 + 2 * N
        /\ HasPrefix(sub[1], CmdProgress)
        /\ PercentOf(sub[1]) = 0
        /\ SubSeq(sub[1], 6, 6) = << "0" >>
        /\ RemainingOf(sub[1]) = N
        /\ \A i \in 1..N :
             /\ sub[2 * i] = LineDwell60
             /\ HasPrefix(sub[2 * i + 1], CmdProgress)
             /\ RemainingOf(sub[2 * i + 1]) = N - i
             /\ LET h == PercentOf(sub[2 * i + 1])
                IN  /\ 2 * (h * N - 10000 * i) <= N
                    /\ 2 * (10000 * i - h * N) <= N
        /\ N > 0 => PercentOf(sub[Len(sub)]) = 10000 /\ RemainingOf(sub[Len(sub)]) = 0
        /\ N = 0 => sub = << << "M", "7", "3", " ", "P", "0", " ", "R", "0" >> >>
        /\ Cardinality({ i \in 1..Len(sub) : HasPrefix(sub[i], CmdDwell) }) = N

\* A block with three dwell and progress pairs, the first reporting 33.33 percent.
C5_Witness ==
  /\ Called
  /\ settings.annealMinutes = 3
  /\ PercentOf(DwellLines(block)[3]) = 3333

\* C6 (as claimed): a call asks the provider for the six declared keys and
\* no other, and the block has the beep command exactly when the
\* reminderBeep setting is true.
C6_DeclaredKeysDecideBeep ==
  Called =>
    /\ { queried[i] : i \in 1..Len(queried) } = DeclaredKeys
    /\ Contains(block, CmdBeep) <=> settings.reminderBeep

\* The wait lines of step x of the step-down loop: bed before chamber, each
\* for a channel with a target above x.
StepWaits(x) ==
  (IF IsTrue(BedTarget) /\ BedTarget.tenths > 10 * x
   THEN << CmdBedWait \o << " ", "S" >> \o FormatInt(x) >> ELSE << >>)
    \o (IF IsTrue(ChamberTarget) /\ ChamberTarget.tenths > 10 * x
        THEN << CmdChamberWait \o << " ", "S" >> \o FormatInt(x) >> ELSE << >>)

\* The positions of the dwell lines among the lines of the step-down loop,
\* and the number of lines of the k-th step before its dwell.
DwellPositions(ls) == { i \in 1..Len(ls) : ls[i] = LineDwell60 }

StepStart(ls, k) ==
  IF k = 1 THEN 1
  ELSE 1 + (CHOOSE i \in DwellPositions(ls) :
              Cardinality({ j \in DwellPositions(ls) : j < i }) = k - 2)

StepEnd(ls, k) ==
  CHOOSE i \in DwellPositions(ls) :
    Cardinality({ j \in DwellPositions(ls) : j < i }) = k - 1

WaitCount(ls, k) == StepEnd(ls, k) - StepStart(ls, k)

\* C7: with M the larger target and E the end cooling temperature, the
\* step-down loop has one step for each of M-1, M-2, ..., E in this order;
\* step x is the wait line of every channel with a target above x, bed
\* before chamber, then one 'G4 S60'.  It has max(0, M - E) dwell lines, and
\* no line at all when E >= M.
C7_StepDownLoop ==
  Called =>
    LET M  == (IF BedTarget.tenths >= ChamberTarget.tenths
               THEN BedTarget.tenths ELSE ChamberTarget.tenths) \div 10
        E  == settings.endCoolingTemp.tenths \div 10
        n  == IF M > E THEN M - E ELSE 0
    IN  \A ls \in { StepDownLines(block) } :
        /\ Cardinality(DwellPositions(ls)) = n
        /\ n = 0 => ls = << >>
        /\ n > 0 => ls[Len(ls)] = LineDwell60
        /\ \A k \in 1..n :
             SubSeq(ls, StepStart(ls, k), StepEnd(ls, k))
               = StepWaits(M - k) \o << LineDwell60 >>

\* A loop of three steps for two channels with different targets.
C7_Witness ==
  /\ Called
  /\ IsTrue(BedTarget)
  /\ IsTrue(ChamberTarget)
  /\ BedTarget # ChamberTarget
  /\ ~BedTarget.float /\ ~ChamberTarget.float
  /\ Cardinality(DwellPositions(StepDownLines(block))) >= 3

\* C8 (as claimed): of two steps of the step-down loop, the later one has
\* no more wait lines than the earlier one.
C8_FewerWaitsLater ==
  Called =>
    \A ls \in { StepDownLines(block) } :
      \A j, k \in 1..Cardinality(DwellPositions(ls)) :
        j < k => WaitCount(ls, k) <= WaitCount(ls, j)

\* C8 (amended): of two steps of the step-down loop, the later one has no
\* fewer wait lines than the earlier one: a channel is waited for from the
\* step below its target on, down to the last step.
C8_MoreWaitsLater ==
  Called =>
    \A ls \in { StepDownLines(block) } :
      \A j, k \in 1..Cardinality(DwellPositions(ls)) :
        j < k => WaitCount(ls, k) >= WaitCount(ls, j)

\* A loop whose first step waits for one channel and whose last step for two.
C8_Witness ==
  /\ Called
  /\ \E ls \in { StepDownLines(block) } :
       \E n \in { Cardinality(DwellPositions(ls)) } :
         n >= 2 /\ WaitCount(ls, 1) = 1 /\ WaitCount(ls, n) = 2

\* C9: the block has one heater-off line for each channel with a target
\* other than 0 and none for the other channels, every heater-off line comes
\* after every wait and dwell line, and the last line is 'M117 Annealing
\* complete.'.
C9_HeaterOffLast ==
  Called =>
    \A ls \in { Lines(block) } :
    LET offs  == { i \in 1..Len(ls) :
                     HasPrefix(ls[i], CmdBedSet) \/ HasPrefix(ls[i], CmdChamberSet) }
        waits == { i \in 1..Len(ls) :
                     \/ HasPrefix(ls[i], CmdBedWait)
                     \/ HasPrefix(ls[i], CmdChamberWait)
                     \/ HasPrefix(ls[i], CmdDwell) }
    IN  /\ Cardinality({ i \in 1..Len(ls) : HasPrefix(ls[i], CmdBedSet) })
             = (IF IsTrue(BedTarget) THEN 1 ELSE 0)
        /\ Cardinality({ i \in 1..Len(ls) : HasPrefix(ls[i], CmdChamberSet) })
             = (IF IsTrue(ChamberTarget) THEN 1 ELSE 0)
        /\ \A i \in 1..Len(ls) :
             /\ HasPrefix(ls[i], CmdBedSet) => ls[i] = LineBedOff
             /\ HasPrefix(ls[i], CmdChamberSet) => ls[i] = LineChamberOff
        /\ \A i \in offs, j \in waits : j < i
        /\ \A i \in offs : i = Len(ls) - 1 \/ i = Len(ls) - 2
        /\ ls[Len(ls)] = LineComplete

\* A block for one channel, with dwell and step-down lines before its heater-off line.
C9_Witness ==
  /\ Called
  /\ IsTrue(BedTarget)
  /\ ~IsTrue(ChamberTarget)
  /\ settings.annealMinutes > 0
  /\ StepDownLines(block) # << >>
  /\ Contains(block, LineBedOff)

====
